---- MODULE Spec2Model ----
(***************************************************************************)
(* A model of gcpai.py: a command-line workflow that stages the working    *)
(* tree, negotiates a branch name and a commit message with a text         *)
(* generator (accept / regenerate / cancel), commits, pushes and           *)
(* optionally opens a pull request.                                        *)
(*                                                                         *)
(* Text is a sequence of one-character strings, so that strip(), lower(),  *)
(* capitalize(), replace() and split() are computed and not assumed.       *)
(* A Python float is an IEEE-754 double, kept exactly as a two-limb        *)
(* integer in units of 2^-55 (see FAdd).                                   *)
(***************************************************************************)
EXTENDS Integers, Sequences, FiniteSets, TLC

(***************************************************************************)
(* Bounds of the model.                                                    *)
(***************************************************************************)
\* regenerations explored per loop in the whole-workflow specification
MainRegens == 1
\* regenerations explored per loop in the single-loop specification
MaxRegens == 5
\* length of the answer lines explored in the prompt specification
MaxInputLen == 3
\* regenerations explored per loop in the prompt specification
InputRegens == 1

\* the longest text the generation service returns in SpecText
MaxTextLen == 4

(***************************************************************************)
(* Python values.                                                          *)
(***************************************************************************)
\* Python's None, kept apart from every text (a text holds single characters)
None == <<"None">>

\* bool(v) of a value that is None or a str
Truthy(v) == v # None /\ v # <<>>

(***************************************************************************)
(* str methods.                                                            *)
(***************************************************************************)
Uppers == <<"A","B","C","D","E","F","G","H","I","J","K","L","M",
            "N","O","P","Q","R","S","T","U","V","W","X","Y","Z">>

Lowers == <<"a","b","c","d","e","f","g","h","i","j","k","l","m",
            "n","o","p","q","r","s","t","u","v","w","x","y","z">>

\* the character U+0060 (a string of the notation cannot hold it)
Backtick == "<backtick>"

\* the characters str.strip() removes
Whitespace == {" ", "\t", "\n"}

LowerChar(c) ==
    IF \E i \in 1..Len(Uppers) : Uppers[i] = c
    THEN Lowers[CHOOSE i \in 1..Len(Uppers) : Uppers[i] = c]
    ELSE c

UpperChar(c) ==
    IF \E i \in 1..Len(Lowers) : Lowers[i] = c
    THEN Uppers[CHOOSE i \in 1..Len(Lowers) : Lowers[i] = c]
    ELSE c

\* str.lower()
Lower(s) == [i \in 1..Len(s) |-> LowerChar(s[i])]

\* str.capitalize(): first character upper-cased, the rest lower-cased
Capitalize(s) ==
    [i \in 1..Len(s) |-> IF i = 1 THEN UpperChar(s[i]) ELSE LowerChar(s[i])]

RECURSIVE LStrip(_)
LStrip(s) ==
    IF s # <<>> /\ Head(s) \in Whitespace THEN LStrip(Tail(s)) ELSE s

RECURSIVE RStrip(_)
RStrip(s) ==
    IF s # <<>> /\ s[Len(s)] \in Whitespace
    THEN RStrip(SubSeq(s, 1, Len(s) - 1))
    ELSE s

\* str.strip()
Strip(s) == RStrip(LStrip(s))

\* str.replace(c, "")
RemoveChar(s, c) == SelectSeq(s, LAMBDA x : x # c)

\* c in s
Contains(s, c) == \E i \in 1..Len(s) : s[i] = c

\* s.split(c, 1) of a text that contains c: the parts around the first c
SplitFirst(s, c) ==
    LET i == CHOOSE k \in 1..Len(s) :
                 s[k] = c /\ \A j \in 1..(k - 1) : s[j] # c
    IN  <<SubSeq(s, 1, i - 1), SubSeq(s, i + 1, Len(s))>>

StartsWith(s, c) == s # <<>> /\ s[1] = c

(***************************************************************************)
(* Python floats.  A double d with 2^-3 <= d < 4 is the record             *)
(* [hi, lo] with d = (hi * 2^28 + lo) * 2^-55.                             *)
(***************************************************************************)
Limb == 2^28

\* the literals of the program, as the doubles Python reads them
F0_2 == [hi |-> 26843545, lo |-> 161061274]
F0_3 == [hi |-> 40265318, lo |-> 107374182]
F0_4 == [hi |-> 53687091, lo |-> 53687092]
F0_5 == [hi |-> 67108864, lo |-> 0]
F1_0 == [hi |-> 134217728, lo |-> 0]

FLe(a, b) == a.hi < b.hi \/ (a.hi = b.hi /\ a.lo <= b.lo)

\* a + b of two doubles: the exact sum, rounded to the nearest double of
\* its binade, ties to even
FAdd(a, b) ==
    LET lo0  == a.lo + b.lo
        sl   == lo0 % Limb
        sh   == a.hi + b.hi + (lo0 \div Limb)
        q    == IF sh >= 2^27 THEN 8
                ELSE IF sh >= 2^26 THEN 4
                ELSE IF sh >= 2^25 THEN 2 ELSE 1
        r    == sl % q
        down == sl - r
        up   == IF 2 * r > q \/ (2 * r = q /\ (down \div q) % 2 = 1)
                THEN down + q ELSE down
    IN  [hi |-> sh + (up \div Limb), lo |-> up % Limb]

\* min(a, b) of two doubles
FMin(a, b) == IF FLe(a, b) THEN a ELSE b

(***************************************************************************)
(* Exceptions.  An exception is a record [cls, code]; a try statement      *)
(* around a call is a sequence of except clauses, innermost first.         *)
(***************************************************************************)
\* the classes an exception of class c is an instance of
Ancestors(c) ==
    CASE c = "KeyboardInterrupt"  -> {"KeyboardInterrupt", "BaseException"}
      [] c = "SystemExit"         -> {"SystemExit", "BaseException"}
      [] c = "CalledProcessError" ->
             {"CalledProcessError", "SubprocessError", "Exception", "BaseException"}
      [] c = "FileNotFoundError"  ->
             {"FileNotFoundError", "OSError", "Exception", "BaseException"}
      [] c = "IndexError"         ->
             {"IndexError", "LookupError", "Exception", "BaseException"}
      [] c = "OpenAIError"        -> {"OpenAIError", "Exception", "BaseException"}

Exc(c) == [cls |-> c, code |-> 0]

\* what exit(n) raises
SystemExit(n) == [cls |-> "SystemExit", code |-> n]

\* an except clause whose body calls exit(n)
ExitClause(classes, n) == [classes |-> classes, act |-> "exit", code |-> n, to |-> ""]

\* an except clause whose body falls through to the statement at `to`
PassClause(classes, to) == [classes |-> classes, act |-> "goto", code |-> 0, to |-> to]

\* where an exception raised under the clauses ends: the first clause that
\* matches runs; an exit() in its body raises SystemExit under the clauses
\* outside it; with no clause left the interpreter ends the process with
\* SystemExit's code, or prints the traceback and ends with 1
RECURSIVE Resolve(_, _)
Resolve(e, clauses) ==
    IF clauses = <<>>
    THEN [kind |-> "exit", code |-> IF e.cls = "SystemExit" THEN e.code ELSE 1, to |-> "done"]
    ELSE LET c == Head(clauses)
         IN  IF Ancestors(e.cls) \cap c.classes # {}
             THEN IF c.act = "exit"
                  THEN Resolve(SystemExit(c.code), Tail(clauses))
                  ELSE [kind |-> "goto", code |-> 0, to |-> c.to]
             ELSE Resolve(e, Tail(clauses))

\* mutants of GenGuard: a bare except, which also catches the interrupt; a
\* handler that reports the error and lets main end
GenGuardBare == <<ExitClause({"BaseException"}, 1)>>

GenGuardSwallow == <<PassClause({"Exception"}, "main_end")>>

\* get_openai_suggestion: except Exception -> exit(1)
GenGuard == <<ExitClause({"Exception"}, 1)>>

\* run_git_command: except CalledProcessError -> exit(1),
\*                  except FileNotFoundError -> exit(1)
RunGuard == <<ExitClause({"CalledProcessError"}, 1), ExitClause({"FileNotFoundError"}, 1)>>

\* __main__: except KeyboardInterrupt -> exit(130)
MainGuard == <<ExitClause({"KeyboardInterrupt"}, 130)>>

\* main, the --pr block: except (CalledProcessError, FileNotFoundError) -> print
PrGuard == <<PassClause({"CalledProcessError", "FileNotFoundError"}, "main_end")>>

\* the try statements of main around the statement at position p
MainTry(p) ==
    CASE p = "pr_remote_show" ->
             <<PassClause({"CalledProcessError", "IndexError"}, "pr_default_check")>>
             \o PrGuard \o MainGuard
      [] p = "pr_show_ref_main" ->
             <<PassClause({"CalledProcessError"}, "pr_show_ref_master")>>
             \o PrGuard \o MainGuard
      [] p = "pr_show_ref_master" ->
             <<PassClause({"CalledProcessError"}, "main_end")>>
             \o PrGuard \o MainGuard
      [] p \in {"pr_gh_version", "pr_full_diff", "pr_gen_title", "pr_log",
                "pr_log_last", "pr_create"} -> PrGuard \o MainGuard
      [] p = "import" -> <<>>
      [] OTHER -> MainGuard

(***************************************************************************)
(* The inputs of a run.                                                    *)
(***************************************************************************)
\* os.getenv("OPENAI_API_KEY"): None when the variable is not set
KeyValues == {None, <<"s", "k">>}

Feat == <<"f", "e", "a", "t">>

Fix == <<"f", "i", "x">>

\* args.type: None, or one of the choices of --type
ChangeTypes == {None, Feat, Fix}

\* the branches HEAD may be on when the program starts
StartBranches == {<<"m">>, <<"b">>}

\* the raw texts the completion service answers with, per generator
RawTexts(fn) ==
    CASE fn = "generate_branch_name"    -> {<<Backtick>>, <<"b">>, <<" ", "B">>}
      [] fn = "generate_commit_message" -> {<<>>, <<"c">>, Feat \o <<":", "y">>}
      [] fn = "generate_pr_title"       -> {<<"F", ":", "a", " ", "B">>, <<"t">>}

\* the lines the user types in the whole-workflow specification
Answers == {<<>>, <<"Y", " ">>, <<"r">>, <<"n">>}

\* the characters of the lines typed in the prompt specification
InputChars == {"y", "Y", "r", "R", "n", " "}

RECURSIVE SeqsUpTo(_, _)
SeqsUpTo(S, n) ==
    IF n = 0 THEN {<<>>}
    ELSE LET shorter == SeqsUpTo(S, n - 1)
         IN  shorter \cup {Append(t, c) : t \in shorter, c \in S}

\* every line of at most MaxInputLen characters
InputLines == SeqsUpTo(InputChars, MaxInputLen)

\* the value of a variable that holds nothing yet
NoInput == <<"NoInput">>

\* lastCall before any generation call
NoCall ==
    [fn |-> "none", prompt |-> [fn |-> "none"], temperature |-> [hi |-> 0, lo |-> 0],
     history |-> <<>>, content |-> NoInput]

\* the characters of the texts the generation service returns in SpecText
TextChars == {"a", "B", ":", " ", "[", Backtick}

\* response.choices[0].message.content: every text of at most MaxTextLen
\* characters
TextContents == SeqsUpTo(TextChars, MaxTextLen)

(***************************************************************************)
(* The program's constants and pure functions.                             *)
(***************************************************************************)
BranchQuestion ==
    <<"S","u","g","g","e","s","t","e","d"," ","b","r","a","n","c","h"," ","n","a","m","e">>

CommitQuestion ==
    <<"S","u","g","g","e","s","t","e","d"," ","c","o","m","m","i","t"," ",
      "m","e","s","s","a","g","e">>

\* t in s, of two texts
HasSubstring(s, t) ==
    \E i \in 1..(Len(s) - Len(t) + 1) : SubSeq(s, i, i + Len(t) - 1) = t

\* user_interaction_loop: the temperature of the first call
BaseTemperature(prompt_question) ==
    IF HasSubstring(Lower(prompt_question), <<"b","r","a","n","c","h">>)
    THEN F0_5 ELSE F0_3

\* mutant of NextTemperature: the clamp forgotten
NextTemperatureUnclamped(t) == FAdd(t, F0_2)

\* user_interaction_loop: suggested_temperature = min(1.0, suggested_temperature + 0.2)
NextTemperature(t) == FMin(F1_0, FAdd(t, F0_2))

\* mutant of NextHistory: the empty suggestion appended as well
NextHistoryAlways(history, s) == Append(history, s)

\* user_interaction_loop: if suggestion: previous_suggestions.append(suggestion)
NextHistory(history, s) == IF s # <<>> THEN Append(history, s) ELSE history

\* mutant of ParseAnswer: .lower() left out
ParseAnswerNoLower(line) == Strip(line)

\* input(...).strip().lower()
ParseAnswer(line) == Lower(Strip(line))

\* mutant of LoopResult: an empty accepted suggestion returned as None
LoopResultOrNone(decision, s) ==
    IF decision = "accept" /\ s # <<>> THEN s ELSE None

\* user_interaction_loop: return suggestion (accept), return None (cancel)
LoopResult(decision, s) == IF decision = "accept" THEN s ELSE None

\* user_interaction_loop: the branch taken on the response
Decide(response) ==
    IF response \in {<<"y">>, <<>>} THEN "accept"
    ELSE IF response = <<"r">> THEN "regenerate"
    ELSE "cancel"

\* get_openai_suggestion: the suggestion made of the service's answer
Normalize(content) ==
    LET suggestion == RemoveChar(Strip(content), Backtick)
    IN  IF Contains(suggestion, ":")
        THEN LET parts       == SplitFirst(suggestion, ":")
                 commit_type == Strip(parts[1])
                 commit_desc == Strip(parts[2])
             IN  IF ~StartsWith(commit_desc, "[")
                 THEN commit_type \o <<":", " ">> \o Capitalize(commit_desc)
                 ELSE suggestion
        ELSE suggestion

\* generate_commit_message, generate_branch_name: the prompt; the rejected
\* suggestions are listed when there are any, the diff comes last
BuildPrompt(fn, diff, history, change_type) ==
    [fn |-> fn, change_type |-> change_type,
     rejected |-> IF history # <<>> THEN history ELSE <<>>,
     diff |-> diff]

(***************************************************************************)
(* The state.                                                              *)
(***************************************************************************)
VARIABLES
    key,                   \* the environment's OPENAI_API_KEY after load_dotenv()
    args,                  \* the parsed command line
    repo,                  \* the repository: HEAD's branch, the index, the working tree
    pc,                    \* the statement the process is at
    exitCode,              \* the process's exit status, Running until it ends
    staged_diff, original_branch_name, branch_name, new_branch_created,
    commit_message, branch_to_push,                          \* main's locals
    default_branch, full_diff, pr_title,                     \* main's locals, --pr
    prompt_question, generation_function, diff, change_type, \* the loop's parameters
    suggested_temperature, previous_suggestions, suggestion, response,
    ret,                   \* what user_interaction_loop returned
    rawInput,              \* the line the user typed last, until the next step
    lastCall,              \* the arguments of the last generation call
    log,                   \* this loop's presented suggestions with the branch taken
    genCalls,              \* generation calls made by this loop invocation
    presented,             \* suggestions printed by this loop invocation
    effects,               \* the state-changing commands run so far, in order
    priorRegens,           \* Regenerate decisions taken in the earlier loops of the run
    diffsSeen,             \* the diff texts the loops' generation calls were given
    confirmLine,           \* the line typed at the commit confirmation
    goBackLine,            \* the line typed at the return-to-branch question
    raised                 \* the exception that ended the run, where it was raised
                           \* and how many commands had run

inputs == <<key, args>>

mainLocals == <<staged_diff, original_branch_name, branch_name, new_branch_created,
                commit_message, branch_to_push>>

prLocals == <<default_branch, full_diff, pr_title>>

loopParams == <<prompt_question, generation_function, diff, change_type>>

loopLocals == <<suggested_temperature, previous_suggestions, suggestion, response>>

loopGhosts == <<log, genCalls, presented>>

runGhosts == <<priorRegens, diffsSeen, confirmLine, goBackLine>>

vars == <<inputs, runGhosts, repo, pc, exitCode, mainLocals, prLocals, loopParams, loopLocals,
          ret, rawInput, lastCall, loopGhosts, effects, raised>>

Running == 0 - 1

NoRaise == [cls |-> "none", at |-> "none", ran |-> 0]

\* the Regenerate decisions taken so far in this loop
Regens(l) == Len(SelectSeq(l, LAMBDA e : e.decision = "regenerate"))

(***************************************************************************)
(* Init: the process starts, nothing has run.                              *)
(***************************************************************************)
Locals0 ==
    /\ branch_name = None
    /\ new_branch_created = FALSE
    /\ commit_message = None
    /\ branch_to_push = None
    /\ default_branch = ""
    /\ full_diff = "unset"
    /\ pr_title = None
    /\ prompt_question = None
    /\ generation_function = "none"
    /\ diff = "unset"
    /\ change_type = None
    /\ suggested_temperature = F0_3
    /\ previous_suggestions = <<>>
    /\ suggestion = None
    /\ response = NoInput
    /\ ret = NoInput
    /\ rawInput = NoInput
    /\ lastCall = NoCall
    /\ log = <<>>
    /\ genCalls = 0
    /\ presented = 0
    /\ raised = NoRaise
    /\ priorRegens = 0
    /\ diffsSeen = {}
    /\ confirmLine = NoInput
    /\ goBackLine = NoInput

Init ==
    /\ key \in KeyValues
    /\ args \in [branch : BOOLEAN, pr : BOOLEAN, type : ChangeTypes]
    /\ repo \in [head : StartBranches, staged : {""}, worktree : {"", "d1"}]
    /\ pc = "import"
    /\ exitCode = Running
    /\ effects = <<>>
    /\ staged_diff = "unset"
    /\ original_branch_name = None
    /\ Locals0

(***************************************************************************)
(* How a step ends.                                                        *)
(***************************************************************************)
\* the statement reached, or the exit taken, as Resolve found it
Land(r) ==
    /\ pc' = r.to
    /\ exitCode' = IF r.kind = "exit" THEN r.code ELSE exitCode

\* exit(n) called by main itself
Exit(n) == Land(Resolve(SystemExit(n), MainTry(pc)))

\* main returns: the process ends with status 0
MainEnd ==
    /\ pc = "main_end"
    /\ pc' = "done"
    /\ exitCode' = 0
    /\ UNCHANGED <<inputs, runGhosts, repo, mainLocals, prLocals, loopParams,
                   loopLocals, ret, rawInput, lastCall, loopGhosts, effects,
                   raised>>

(***************************************************************************)
(* The blocking calls and the try statements around them.                  *)
(***************************************************************************)
\* the positions at which run_git_command runs a command
CommandPcs ==
    {"git_add", "git_diff", "rev_parse_original", "checkout_new", "rev_parse_check",
     "rev_parse_commit", "git_commit", "rev_parse_push", "git_push",
     "checkout_original", "pr_gh_version", "pr_remote_show", "pr_show_ref_main",
     "pr_show_ref_master", "pr_full_diff", "pr_log", "pr_log_last", "pr_create"}

\* the commands run with check=False
NoCheckPcs == {"checkout_new", "pr_full_diff", "pr_log"}

\* the positions at which a generation call is made
GenPcs == {"loop_gen", "pr_gen_title"}

\* the positions at which input() waits
InputPcs == {"loop_input", "confirm", "go_back"}

\* the except clauses around the blocking call at position p, innermost first
Guards(p) ==
    (IF p \in GenPcs THEN GenGuard ELSE IF p \in CommandPcs THEN RunGuard ELSE <<>>)
    \o MainTry(p)

(***************************************************************************)
(* Start-up: the module's top level and the head of main.                  *)
(***************************************************************************)
\* client = OpenAI(api_key=os.getenv("OPENAI_API_KEY")): with no key the
\* library's constructor may refuse, which ends the process with a traceback
ClientInit ==
    /\ pc = "import"
    /\ \E accepted \in (IF key = None THEN BOOLEAN ELSE {TRUE}) :
          IF accepted
          THEN /\ pc' = "check_key"
               /\ UNCHANGED <<exitCode, raised>>
          ELSE /\ Land(Resolve(Exc("OpenAIError"), MainTry(pc)))
               /\ raised' = [cls |-> "OpenAIError", at |-> pc, ran |-> Len(effects)]
    /\ UNCHANGED <<inputs, runGhosts, repo, mainLocals, prLocals, loopParams,
                   loopLocals, ret, rawInput, lastCall, loopGhosts, effects>>

\* mutant of CheckKey: the check left out
CheckKeyOmitted ==
    /\ pc = "check_key"
    /\ pc' = "git_add"
    /\ UNCHANGED <<inputs, runGhosts, repo, exitCode, mainLocals, prLocals,
                   loopParams, loopLocals, ret, rawInput, lastCall, loopGhosts,
                   effects, raised>>

\* main: if not os.getenv("OPENAI_API_KEY"): ... exit(1)
CheckKey ==
    /\ pc = "check_key"
    /\ IF ~Truthy(key) THEN Exit(1) ELSE pc' = "git_add" /\ UNCHANGED exitCode
    /\ UNCHANGED <<inputs, runGhosts, repo, mainLocals, prLocals, loopParams,
                   loopLocals, ret, rawInput, lastCall, loopGhosts, effects,
                   raised>>

\* a command run_git_command has run, with its first argument
Cmd(c, a) == [cmd |-> c, arg |-> a]

\* get_git_diff: git add .
GitAdd ==
    /\ pc = "git_add"
    /\ repo' = [repo EXCEPT !.staged = repo.worktree]
    /\ effects' = Append(effects, Cmd("git add", <<>>))
    /\ pc' = "git_diff"
    /\ UNCHANGED <<inputs, runGhosts, exitCode, mainLocals, prLocals,
                   loopParams, loopLocals, ret, rawInput, lastCall, loopGhosts,
                   raised>>

\* get_git_diff: git diff --cached; main: nothing staged -> exit(0)
GitDiffCached ==
    /\ pc = "git_diff"
    /\ staged_diff' = repo.staged
    /\ IF repo.staged = "" THEN Exit(0)
       ELSE pc' = "rev_parse_original" /\ UNCHANGED exitCode
    /\ UNCHANGED <<inputs, runGhosts, repo, original_branch_name, branch_name,
                   new_branch_created, commit_message, branch_to_push,
                   prLocals, loopParams, loopLocals, ret, rawInput, lastCall,
                   loopGhosts, effects, raised>>

\* main: original_branch_name = git rev-parse --abbrev-ref HEAD; if args.branch
RevParseOriginal ==
    /\ pc = "rev_parse_original"
    /\ original_branch_name' = repo.head
    /\ pc' = IF args.branch THEN "call_branch_loop" ELSE "call_commit_loop"
    /\ UNCHANGED <<inputs, runGhosts, repo, exitCode, staged_diff, branch_name,
                   new_branch_created, commit_message, branch_to_push,
                   prLocals, loopParams, loopLocals, ret, rawInput, lastCall,
                   loopGhosts, effects, raised>>

(***************************************************************************)
(* user_interaction_loop.                                                  *)
(***************************************************************************)
\* mutant of DiffArgument: the diff read again at each call of the loop
DiffArgumentReread == repo.worktree

\* main: the diff both calls of user_interaction_loop are given
DiffArgument == staged_diff

\* mutant of InitialHistory: one list shared by every invocation
InitialHistoryShared == previous_suggestions

\* user_interaction_loop: previous_suggestions = []
InitialHistory == <<>>

\* main calls user_interaction_loop; the loop sets its locals
EnterLoop ==
    /\ pc \in {"call_branch_loop", "call_commit_loop"}
    /\ prompt_question' =
           IF pc = "call_branch_loop" THEN BranchQuestion ELSE CommitQuestion
    /\ generation_function' =
           IF pc = "call_branch_loop" THEN "generate_branch_name"
           ELSE "generate_commit_message"
    /\ diff' = DiffArgument
    /\ change_type' = args.type
    /\ suggested_temperature' = BaseTemperature(prompt_question')
    /\ previous_suggestions' = InitialHistory
    /\ suggestion' = None
    /\ response' = NoInput
    /\ ret' = NoInput
    /\ log' = <<>>
    /\ genCalls' = 0
    /\ presented' = 0
    /\ priorRegens' = priorRegens + Regens(log)
    /\ pc' = "loop_gen"
    /\ UNCHANGED <<inputs, diffsSeen, confirmLine, goBackLine, repo, exitCode,
                   mainLocals, prLocals, rawInput, lastCall, effects, raised>>

\* the arguments of the generation call made at position p
CallAt(p) ==
    IF p = "loop_gen"
    THEN [fn |-> generation_function,
          prompt |-> BuildPrompt(generation_function, diff, previous_suggestions,
                                 change_type),
          temperature |-> suggested_temperature,
          history |-> previous_suggestions,
          content |-> NoInput]
    ELSE [fn |-> "generate_pr_title",
          prompt |-> BuildPrompt("generate_pr_title", full_diff, <<>>, None),
          temperature |-> F0_4,
          history |-> <<>>,
          content |-> NoInput]

\* the generation call of the loop answers with one of texts; the suggestion
\* is printed
Generate(texts) ==
    /\ pc = "loop_gen"
    /\ \E content \in texts :
          /\ suggestion' = Normalize(content)
          /\ lastCall' = [CallAt(pc) EXCEPT !.content = content]
    /\ diffsSeen' = diffsSeen \cup {diff}
    /\ genCalls' = genCalls + 1
    /\ presented' = presented + 1
    /\ rawInput' = NoInput
    /\ pc' = "loop_input"
    /\ UNCHANGED <<inputs, priorRegens, confirmLine, goBackLine, repo,
                   exitCode, mainLocals, prLocals, loopParams,
                   suggested_temperature, previous_suggestions, response, ret,
                   log, effects, raised>>

GenerateOk == Generate(RawTexts(generation_function))

\* the generation call raises: get_openai_suggestion prints and calls exit(1)
GenerateError ==
    /\ pc \in GenPcs
    /\ lastCall' = CallAt(pc)
    /\ diffsSeen' = IF pc = "loop_gen" THEN diffsSeen \cup {diff} ELSE diffsSeen
    /\ genCalls' = IF pc = "loop_gen" THEN genCalls + 1 ELSE genCalls
    /\ rawInput' = NoInput
    /\ raised' = [cls |-> "OpenAIError", at |-> pc, ran |-> Len(effects)]
    /\ Land(Resolve(Exc("OpenAIError"), Guards(pc)))
    /\ UNCHANGED <<inputs, priorRegens, confirmLine, goBackLine, repo,
                   mainLocals, prLocals, loopParams, loopLocals, ret, log,
                   presented, effects>>

\* mutant of ContinueTo: the while loop starts after the generation call
ContinueToInput == "loop_input"

\* user_interaction_loop: continue goes to the top of the while loop, which
\* is the generation call
ContinueTo == "loop_gen"

\* the user answers the suggestion; the loop accepts, regenerates or cancels
Respond(lines, cap) ==
    /\ pc = "loop_input"
    /\ \E line \in lines :
          LET r == ParseAnswer(line)
              d == Decide(r)
          IN  /\ d = "regenerate" => Regens(log) < cap
              /\ rawInput' = line
              /\ response' = r
              /\ log' = Append(log, [text |-> suggestion, decision |-> d])
              /\ CASE d = "accept" ->
                        /\ ret' = LoopResult(d, suggestion)
                        /\ pc' = "loop_return"
                        /\ UNCHANGED <<previous_suggestions,
                                       suggested_temperature>>
                   [] d = "regenerate" ->
                        /\ previous_suggestions' =
                               NextHistory(previous_suggestions, suggestion)
                        /\ suggested_temperature' =
                               NextTemperature(suggested_temperature)
                        /\ pc' = ContinueTo
                        /\ UNCHANGED ret
                   [] OTHER ->
                        /\ ret' = LoopResult(d, suggestion)
                        /\ pc' = "loop_return"
                        /\ UNCHANGED <<previous_suggestions,
                                       suggested_temperature>>
    /\ UNCHANGED <<inputs, runGhosts, repo, exitCode, mainLocals, prLocals,
                   loopParams, suggestion, lastCall, genCalls, presented,
                   effects, raised>>

(***************************************************************************)
(* main, after each negotiation.                                           *)
(***************************************************************************)
\* main: branch_name = user_interaction_loop(...); if branch_name: ...
AfterBranchLoop ==
    /\ pc = "loop_return"
    /\ generation_function = "generate_branch_name"
    /\ branch_name' = ret
    /\ rawInput' = NoInput
    /\ IF Truthy(ret)
       THEN IF ret = original_branch_name
            THEN new_branch_created' = FALSE /\ pc' = "call_commit_loop"
            ELSE pc' = "checkout_new" /\ UNCHANGED new_branch_created
       ELSE pc' = "call_commit_loop" /\ UNCHANGED new_branch_created
    /\ UNCHANGED <<inputs, runGhosts, repo, exitCode, staged_diff,
                   original_branch_name, commit_message, branch_to_push,
                   prLocals, loopParams, loopLocals, ret, lastCall, loopGhosts,
                   effects, raised>>

\* main: git checkout -b branch_name, check=False: the command may refuse
CheckoutNew ==
    /\ pc = "checkout_new"
    /\ \E switched \in BOOLEAN :
          repo' = IF switched THEN [repo EXCEPT !.head = branch_name] ELSE repo
    /\ effects' = Append(effects, Cmd("git checkout -b", branch_name))
    /\ pc' = "rev_parse_check"
    /\ UNCHANGED <<inputs, runGhosts, exitCode, mainLocals, prLocals,
                   loopParams, loopLocals, ret, rawInput, lastCall, loopGhosts,
                   raised>>

\* main: current_branch_check = git rev-parse --abbrev-ref HEAD; compare
RevParseCheck ==
    /\ pc = "rev_parse_check"
    /\ IF repo.head = branch_name
       THEN new_branch_created' = TRUE /\ UNCHANGED branch_name
       ELSE branch_name' = None /\ UNCHANGED new_branch_created
    /\ pc' = "call_commit_loop"
    /\ UNCHANGED <<inputs, runGhosts, repo, exitCode, staged_diff,
                   original_branch_name, commit_message, branch_to_push,
                   prLocals, loopParams, loopLocals, ret, rawInput, lastCall,
                   loopGhosts, effects, raised>>

\* main: where a canceled commit goes: the question about the new branch, or the end
CanceledTo ==
    IF new_branch_created /\ branch_name # original_branch_name
    THEN "go_back" ELSE "main_end"

\* main: commit_message = user_interaction_loop(...); if commit_message: ... else: ...
AfterCommitLoop ==
    /\ pc = "loop_return"
    /\ generation_function = "generate_commit_message"
    /\ commit_message' = ret
    /\ rawInput' = NoInput
    /\ pc' = IF Truthy(ret) THEN "rev_parse_commit" ELSE CanceledTo
    /\ UNCHANGED <<inputs, runGhosts, repo, exitCode, staged_diff,
                   original_branch_name, branch_name, new_branch_created,
                   branch_to_push, prLocals, loopParams, loopLocals, ret,
                   lastCall, loopGhosts, effects, raised>>

\* main: branch_to_commit_on = git rev-parse --abbrev-ref HEAD (printed only)
RevParseCommit ==
    /\ pc = "rev_parse_commit"
    /\ pc' = "confirm"
    /\ UNCHANGED <<inputs, runGhosts, repo, exitCode, mainLocals, prLocals,
                   loopParams, loopLocals, ret, rawInput, lastCall, loopGhosts,
                   effects, raised>>

\* mutant of Confirms: the answer to the confirmation ignored
ConfirmsAnything(confirmation) == TRUE

\* main: if confirmation in ('y', '')
Confirms(confirmation) == confirmation \in {<<"y">>, <<>>}

\* main: confirmation = input("Proceed with commit and push? (Y/n)")
Confirm(lines) ==
    /\ pc = "confirm"
    /\ \E line \in lines :
          /\ confirmLine' = line
          /\ pc' = IF Confirms(ParseAnswer(line)) THEN "git_commit" ELSE CanceledTo
    /\ UNCHANGED <<inputs, priorRegens, diffsSeen, goBackLine, repo, exitCode,
                   mainLocals, prLocals, loopParams, loopLocals, ret, rawInput,
                   lastCall, loopGhosts, effects, raised>>

\* main: git commit -m commit_message
GitCommit ==
    /\ pc = "git_commit"
    /\ repo' = [repo EXCEPT !.staged = ""]
    /\ effects' = Append(effects, Cmd("git commit", commit_message))
    /\ pc' = "rev_parse_push"
    /\ UNCHANGED <<inputs, runGhosts, exitCode, mainLocals, prLocals,
                   loopParams, loopLocals, ret, rawInput, lastCall, loopGhosts,
                   raised>>

\* main: branch_to_push = git rev-parse --abbrev-ref HEAD
RevParsePush ==
    /\ pc = "rev_parse_push"
    /\ branch_to_push' = repo.head
    /\ pc' = "git_push"
    /\ UNCHANGED <<inputs, runGhosts, repo, exitCode, staged_diff,
                   original_branch_name, branch_name, new_branch_created,
                   commit_message, prLocals, loopParams, loopLocals, ret,
                   rawInput, lastCall, loopGhosts, effects, raised>>

\* main: git push [--set-upstream] origin branch_to_push; if args.pr
GitPush ==
    /\ pc = "git_push"
    /\ effects' = Append(effects,
           Cmd(IF new_branch_created /\ branch_to_push = branch_name
               THEN "git push --set-upstream" ELSE "git push", branch_to_push))
    /\ pc' = IF args.pr THEN "pr_gh_version" ELSE "main_end"
    /\ UNCHANGED <<inputs, runGhosts, repo, exitCode, mainLocals, prLocals,
                   loopParams, loopLocals, ret, rawInput, lastCall, loopGhosts,
                   raised>>

\* mutant of WantsBack: the empty answer taken as yes
WantsBackByDefault(go_back) == go_back \in {<<"y">>, <<>>}

\* main: if go_back == 'y'
WantsBack(go_back) == go_back = <<"y">>

\* main: go_back = input("... return to the original branch ...? (y/N)")
GoBack(lines) ==
    /\ pc = "go_back"
    /\ \E line \in lines :
          /\ goBackLine' = line
          /\ pc' = IF WantsBack(ParseAnswer(line))
                   THEN "checkout_original" ELSE "main_end"
    /\ UNCHANGED <<inputs, priorRegens, diffsSeen, confirmLine, repo, exitCode,
                   mainLocals, prLocals, loopParams, loopLocals, ret, rawInput,
                   lastCall, loopGhosts, effects, raised>>

\* main: git checkout original_branch_name
CheckoutOriginal ==
    /\ pc = "checkout_original"
    /\ repo' = [repo EXCEPT !.head = original_branch_name]
    /\ effects' = Append(effects, Cmd("git checkout", original_branch_name))
    /\ pc' = "main_end"
    /\ UNCHANGED <<inputs, runGhosts, exitCode, mainLocals, prLocals,
                   loopParams, loopLocals, ret, rawInput, lastCall, loopGhosts,
                   raised>>

(***************************************************************************)
(* main, the --pr block.                                                   *)
(***************************************************************************)
\* main: gh --version; default_branch = ""
PrGhVersion ==
    /\ pc = "pr_gh_version"
    /\ default_branch' = ""
    /\ pc' = "pr_remote_show"
    /\ UNCHANGED <<inputs, runGhosts, repo, exitCode, mainLocals, full_diff,
                   pr_title, loopParams, loopLocals, ret, rawInput, lastCall,
                   loopGhosts, effects, raised>>

\* main: git remote show origin; the 'HEAD branch' line, if any, names the
\* default branch; a line with no colon raises IndexError, which is passed over
PrRemoteShow ==
    /\ pc = "pr_remote_show"
    /\ \E out \in {"", "main", "IndexError"} :
          IF out = "IndexError"
          THEN /\ Land(Resolve(Exc("IndexError"), MainTry(pc)))
               /\ UNCHANGED default_branch
          ELSE /\ default_branch' = out
               /\ pc' = "pr_default_check"
               /\ UNCHANGED exitCode
    /\ UNCHANGED <<inputs, runGhosts, repo, mainLocals, full_diff, pr_title,
                   loopParams, loopLocals, ret, rawInput, lastCall, loopGhosts,
                   effects, raised>>

\* main: if not default_branch: try 'main' and 'master'
PrDefaultCheck ==
    /\ pc = "pr_default_check"
    /\ pc' = IF default_branch = "" THEN "pr_show_ref_main" ELSE "pr_full_diff"
    /\ UNCHANGED <<inputs, runGhosts, repo, exitCode, mainLocals, prLocals,
                   loopParams, loopLocals, ret, rawInput, lastCall, loopGhosts,
                   effects, raised>>

\* main: git show-ref --verify refs/remotes/origin/main (or .../master) succeeds
PrShowRef ==
    /\ pc \in {"pr_show_ref_main", "pr_show_ref_master"}
    /\ default_branch' = IF pc = "pr_show_ref_main" THEN "main" ELSE "master"
    /\ pc' = "pr_full_diff"
    /\ UNCHANGED <<inputs, runGhosts, repo, exitCode, mainLocals, full_diff,
                   pr_title, loopParams, loopLocals, ret, rawInput, lastCall,
                   loopGhosts, effects, raised>>

\* main: full_diff = git diff origin/<default>...HEAD, check=False
PrFullDiff ==
    /\ pc = "pr_full_diff"
    /\ \E d \in {"", "D"} :
          /\ full_diff' = d
          /\ pc' = IF d = "" THEN "main_end" ELSE "pr_gen_title"
    /\ UNCHANGED <<inputs, runGhosts, repo, exitCode, mainLocals,
                   default_branch, pr_title, loopParams, loopLocals, ret,
                   rawInput, lastCall, loopGhosts, effects, raised>>

\* main: pr_title = generate_pr_title(full_diff); the title is printed
PrGenTitle ==
    /\ pc = "pr_gen_title"
    /\ \E content \in RawTexts("generate_pr_title") :
          /\ pr_title' = Normalize(content)
          /\ lastCall' = [CallAt(pc) EXCEPT !.content = content]
    /\ pc' = "pr_log"
    /\ UNCHANGED <<inputs, runGhosts, repo, exitCode, mainLocals,
                   default_branch, full_diff, loopParams, loopLocals, ret,
                   rawInput, loopGhosts, effects, raised>>

\* main: commits_list = git log origin/<default>..HEAD, check=False
PrLog ==
    /\ pc = "pr_log"
    /\ \E empty \in BOOLEAN :
          pc' = IF empty THEN "pr_log_last" ELSE "pr_create"
    /\ UNCHANGED <<inputs, runGhosts, repo, exitCode, mainLocals, prLocals,
                   loopParams, loopLocals, ret, rawInput, lastCall, loopGhosts,
                   effects, raised>>

\* main: commits_list = git log -1
PrLogLast ==
    /\ pc = "pr_log_last"
    /\ pc' = "pr_create"
    /\ UNCHANGED <<inputs, runGhosts, repo, exitCode, mainLocals, prLocals,
                   loopParams, loopLocals, ret, rawInput, lastCall, loopGhosts,
                   effects, raised>>

\* main: gh pr create --title pr_title --body pr_body
PrCreate ==
    /\ pc = "pr_create"
    /\ effects' = Append(effects, Cmd("gh pr create", pr_title))
    /\ pc' = "main_end"
    /\ UNCHANGED <<inputs, runGhosts, repo, exitCode, mainLocals, prLocals,
                   loopParams, loopLocals, ret, rawInput, lastCall, loopGhosts,
                   raised>>

(***************************************************************************)
(* What can happen at a blocking call.                                     *)
(***************************************************************************)
\* subprocess.run raises: the command failed (check=True) or is not installed
CommandFails ==
    /\ pc \in CommandPcs
    /\ \E c \in (IF pc \in NoCheckPcs THEN {"FileNotFoundError"}
                 ELSE {"CalledProcessError", "FileNotFoundError"}) :
          /\ raised' = [cls |-> c, at |-> pc, ran |-> Len(effects)]
          /\ Land(Resolve(Exc(c), Guards(pc)))
    /\ UNCHANGED <<inputs, runGhosts, repo, mainLocals, prLocals, loopParams,
                   loopLocals, ret, rawInput, lastCall, loopGhosts, effects>>

\* the user interrupts the process while it waits in a blocking call
Interrupt ==
    /\ pc \in CommandPcs \cup GenPcs \cup InputPcs
    /\ raised' = [cls |-> "KeyboardInterrupt", at |-> pc, ran |-> Len(effects)]
    /\ Land(Resolve(Exc("KeyboardInterrupt"), Guards(pc)))
    /\ UNCHANGED <<inputs, runGhosts, repo, mainLocals, prLocals, loopParams,
                   loopLocals, ret, rawInput, lastCall, loopGhosts, effects>>

\* the environment: the working tree is edited while the program waits for
\* the user
EditFiles ==
    /\ pc \in InputPcs
    /\ repo.worktree = "d1"
    /\ repo' = [repo EXCEPT !.worktree = "d2"]
    /\ UNCHANGED <<inputs, runGhosts, pc, exitCode, mainLocals, prLocals,
                   loopParams, loopLocals, ret, rawInput, lastCall, loopGhosts,
                   effects, raised>>

(***************************************************************************)
(* The whole workflow.                                                     *)
(***************************************************************************)
Next ==
    \/ ClientInit
    \/ CheckKey
    \/ GitAdd
    \/ GitDiffCached
    \/ RevParseOriginal
    \/ EnterLoop
    \/ GenerateOk
    \/ GenerateError
    \/ Respond(Answers, MainRegens)
    \/ AfterBranchLoop
    \/ CheckoutNew
    \/ RevParseCheck
    \/ AfterCommitLoop
    \/ RevParseCommit
    \/ Confirm(Answers)
    \/ GitCommit
    \/ RevParsePush
    \/ GitPush
    \/ GoBack(Answers)
    \/ CheckoutOriginal
    \/ PrGhVersion
    \/ PrRemoteShow
    \/ PrDefaultCheck
    \/ PrShowRef
    \/ PrFullDiff
    \/ PrGenTitle
    \/ PrLog
    \/ PrLogLast
    \/ PrCreate
    \/ CommandFails
    \/ Interrupt
    \/ EditFiles
    \/ MainEnd

Spec == Init /\ [][Next]_vars

(***************************************************************************)
(* One invocation of user_interaction_loop, from the state in which main   *)
(* calls it first: --branch given (the branch-name loop) or not (the       *)
(* commit-message loop).                                                   *)
(***************************************************************************)
LoopInit ==
    /\ key = <<"s", "k">>
    /\ args \in [branch : BOOLEAN, pr : {FALSE}, type : ChangeTypes]
    /\ repo \in [head : StartBranches, staged : {"d1"}, worktree : {"d1"}]
    /\ pc = IF args.branch THEN "call_branch_loop" ELSE "call_commit_loop"
    /\ exitCode = Running
    /\ effects = <<Cmd("git add", <<>>)>>
    /\ staged_diff = repo.staged
    /\ original_branch_name = repo.head
    /\ Locals0

LoopNext ==
    \/ EnterLoop
    \/ GenerateOk
    \/ GenerateError
    \/ Respond(Answers, MaxRegens)
    \/ Interrupt

SpecLoop == LoopInit /\ [][LoopNext]_vars

InputNext ==
    \/ EnterLoop
    \/ GenerateOk
    \/ GenerateError
    \/ Respond(InputLines, InputRegens)
    \/ Interrupt

SpecInput == LoopInit /\ [][InputNext]_vars

(***************************************************************************)
(* The first generation call of a loop and the answer to it, the service   *)
(* returning any text of TextContents.                                     *)
(***************************************************************************)
TextNext ==
    \/ EnterLoop
    \/ Generate(TextContents)
    \/ GenerateError
    \/ Respond(Answers, 0)
    \/ Interrupt

SpecText == LoopInit /\ [][TextNext]_vars

(***************************************************************************)
(* The claims.                                                             *)
(***************************************************************************)
Last(q) == q[Len(q)]

Front(q) == SubSeq(q, 1, Len(q) - 1)

Min(a, b) == IF a <= b THEN a ELSE b

\* the last generation call was made by the loop invocation under way
CalledInLoop == lastCall # NoCall /\ lastCall.fn = generation_function

\* a generation call of the current loop has just been made: it answered and
\* the user has not yet replied, or it raised
JustCalled ==
    \/ pc = "loop_input" /\ lastCall.fn = generation_function
    \/ raised.cls = "OpenAIError" /\ raised.at = "loop_gen"

\* the double nearest 0.7 and the double nearest 0.9, as Python reads the literals
F0_7 == [hi |-> 93952409, lo |-> 161061272]

F0_9 == [hi |-> 120795955, lo |-> 53687092]

\* the double just below F0_9, which Python prints as 0.8999999999999999
F0_9Below == [hi |-> 120795955, lo |-> 53687088]

\* the double nearest k/10
Tenth(k) ==
    CASE k = 3 -> F0_3 [] k = 5 -> F0_5 [] k = 7 -> F0_7 [] k = 9 -> F0_9
      [] k = 10 -> F1_0

\* ten times min(1.0, b + 0.2 * n), b the base of the current loop
ClaimedTenths(n) ==
    Min(10, (IF generation_function = "generate_branch_name" THEN 5 ELSE 3) + 2 * n)

\* C1 as stated: the temperature of the call made after n regenerations is
\* exactly min(1.0, b + 0.2*n), b = 0.5 (branch-name loop) or 0.3
\* (commit-message loop).
C1_ExactTemperature ==
    JustCalled => lastCall.temperature = Tenth(ClaimedTenths(Regens(log)))

\* C1 as amended: the temperature of the call made after n regenerations is
\* the base with 0.2 added n times in double arithmetic, clamped to 1.0 after
\* each addition: it is the double nearest min(1.0, b + 0.2*n), except that in
\* place of 0.9 it is the double just below (0.8999999999999999); the
\* temperature of the next call is never below that of the last one and no
\* temperature exceeds 1.0.
C1_Temperature ==
    /\ JustCalled =>
          lastCall.temperature =
              IF ClaimedTenths(Regens(log)) = 9 THEN F0_9Below
              ELSE Tenth(ClaimedTenths(Regens(log)))
    /\ CalledInLoop =>
          /\ FLe(lastCall.temperature, suggested_temperature)
          /\ FLe(suggested_temperature, F1_0)

\* the commit-message loop's fifth call: 0.3 + 4 * 0.2 is clamped to 1.0
C1_Witness ==
    /\ pc = "loop_input"
    /\ generation_function = "generate_commit_message"
    /\ Regens(log) = 4
    /\ lastCall.temperature = F1_0

\* the non-empty suggestions the user rejected with Regenerate, in order
RejectedSoFar ==
    LET entries == SelectSeq(log, LAMBDA e : e.decision = "regenerate" /\ e.text # <<>>)
    IN  [i \in 1..Len(entries) |-> entries[i].text]

\* C2: at every generation call of a loop, the history handed to the
\* generator, which is also the list the prompt enumerates, is exactly the
\* ordered sequence of the non-empty suggestions rejected with Regenerate
\* earlier in this invocation; no empty, accepted or canceled suggestion is
\* ever in it.
C2_History ==
    /\ JustCalled =>
          /\ lastCall.history = RejectedSoFar
          /\ lastCall.prompt.rejected = RejectedSoFar
    /\ generation_function # "none" =>
          /\ previous_suggestions = RejectedSoFar
          /\ \A i \in 1..Len(previous_suggestions) : previous_suggestions[i] # <<>>

\* a fourth call: an empty suggestion and two different non-empty ones rejected
C2_Witness ==
    /\ pc = "loop_input"
    /\ Regens(log) = 3
    /\ \E i \in 1..3 : log[i].text = <<>>
    /\ Len(lastCall.history) = 2
    /\ lastCall.history[1] # lastCall.history[2]

\* C3: the loop returns only on the user's Accept, with the suggestion just
\* presented, or on the user's Cancel, with None; after a Regenerate it has
\* not returned, however many regenerations came before.
C3_Outcome ==
    /\ generation_function # "none" /\ ret # NoInput =>
          /\ log # <<>>
          /\ \/ Last(log).decision = "accept" /\ ret = Last(log).text
                /\ ret = suggestion /\ ret # None
             \/ Last(log).decision = "cancel" /\ ret = None
          /\ \A i \in 1..(Len(log) - 1) : log[i].decision = "regenerate"
    /\ pc = "loop_return" => ret # NoInput
    /\ log # <<>> /\ Last(log).decision = "regenerate" =>
          /\ ret = NoInput
          /\ raised = NoRaise => pc \in {"loop_gen", "loop_input"}

\* an empty suggestion accepted after two regenerations is what the loop returns
C3_Witness ==
    /\ pc = "loop_return"
    /\ Regens(log) = 2
    /\ Last(log).decision = "accept"
    /\ ret = <<>>
    /\ previous_suggestions # <<>>

\* t is line without its leading and trailing white space
IsTrimOf(t, line) ==
    \E a \in 1..(Len(line) + 1) : \E b \in (a - 1)..Len(line) :
        /\ t = SubSeq(line, a, b)
        /\ \A i \in 1..(a - 1) : line[i] \in {" ", "\t", "\n"}
        /\ \A i \in (b + 1)..Len(line) : line[i] \in {" ", "\t", "\n"}
        /\ t # <<>> => t[1] \notin {" ", "\t", "\n"} /\ t[Len(t)] \notin {" ", "\t", "\n"}

\* what the prompt promises for an answer line: empty or y accepts, r
\* regenerates, anything else cancels; case and surrounding space do not count
Promised(line) ==
    IF IsTrimOf(<<>>, line) \/ IsTrimOf(<<"y">>, line) \/ IsTrimOf(<<"Y">>, line)
    THEN "accept"
    ELSE IF IsTrimOf(<<"r">>, line) \/ IsTrimOf(<<"R">>, line)
    THEN "regenerate"
    ELSE "cancel"

\* the user has just answered a suggestion and the loop has acted on it
JustAnswered == rawInput # NoInput /\ pc \in {"loop_gen", "loop_return"}

\* C4: the answer line, trimmed and without regard to case, decides the
\* transition: empty or 'y' returns the suggestion (Accept), 'r' goes back
\* to the generation call (Regenerate), every other line returns None
\* (Cancel); no line does anything else.
C4_Decision ==
    JustAnswered =>
        /\ Last(log).decision = Promised(rawInput)
        /\ Promised(rawInput) = "accept" =>
              pc = "loop_return" /\ ret = Last(log).text
        /\ Promised(rawInput) = "regenerate" =>
              pc = "loop_gen" /\ ret = NoInput /\ Regens(log) = Regens(Front(log)) + 1
        /\ Promised(rawInput) = "cancel" =>
              pc = "loop_return" /\ ret = None

\* " Y " typed after one regeneration accepts the second suggestion
C4_Witness ==
    /\ JustAnswered
    /\ rawInput = <<" ", "Y", " ">>
    /\ Regens(log) = 1
    /\ pc = "loop_return"
    /\ ret = suggestion

\* the commands run so far that are named c
Ran(c) == \E i \in 1..Len(effects) : effects[i].cmd = c

\* a generation call has raised
GenerationFailed == raised.cls = "OpenAIError" /\ raised.at \in GenPcs

\* C5: a generation call that fails, in either loop or for the PR title,
\* ends the process with exit code 1: the call is not retried, the loop
\* returns nothing to main, and no generation call, prompt or command follows.
C5_GenerationFailure ==
    GenerationFailed =>
        /\ pc = "done"
        /\ exitCode = 1
        /\ lastCall = CallAt(raised.at)
        /\ Len(effects) = raised.ran
        /\ raised.at = "loop_gen" =>
              /\ ret = NoInput
              /\ presented = genCalls - 1
              /\ generation_function = "generate_branch_name" =>
                    branch_name = None /\ commit_message = None
              /\ generation_function = "generate_commit_message" =>
                    commit_message = None /\ ~Ran("git commit")
        /\ raised.at = "pr_gen_title" => pr_title = None /\ ~Ran("gh pr create")

\* the commit-message loop's second call fails, after a branch was created
C5_Witness ==
    /\ GenerationFailed
    /\ generation_function = "generate_commit_message"
    /\ Regens(log) = 1
    /\ new_branch_created
    /\ exitCode = 1

\* the suggestions the branch-name generator can be made to return
BranchTexts == {Normalize(c) : c \in RawTexts("generate_branch_name")} \ {<<>>}

\* C6: every loop invocation starts from its own base temperature and an
\* empty history: the first call of the commit-message loop has temperature
\* 0.3 and no history whatever was regenerated in the branch-name loop, and
\* no branch-name suggestion is ever in the commit-message loop's history.
C6_FreshLoop ==
    /\ JustCalled /\ genCalls = 1 =>
          /\ lastCall.history = <<>>
          /\ lastCall.prompt.rejected = <<>>
          /\ lastCall.temperature =
                 IF generation_function = "generate_branch_name" THEN F0_5 ELSE F0_3
    /\ generation_function = "generate_commit_message" =>
          /\ \A i \in 1..Len(previous_suggestions) :
                 previous_suggestions[i] \notin BranchTexts
          /\ CalledInLoop =>
                \A i \in 1..Len(lastCall.history) :
                    lastCall.history[i] \notin BranchTexts

\* the commit-message loop's first call after a branch-name loop in which a
\* suggestion was rejected
C6_Witness ==
    /\ pc = "loop_input"
    /\ generation_function = "generate_commit_message"
    /\ genCalls = 1
    /\ priorRegens = 1
    /\ branch_name \in BranchTexts
    /\ lastCall.temperature = F0_3

\* C7: the staged diff is read once, before the first loop, and every
\* generation call of both loops is given that text, whatever was
\* regenerated, edited in the working tree or checked out in between.
C7_OneDiff ==
    /\ diffsSeen \subseteq {staged_diff}
    /\ lastCall.fn \in {"generate_branch_name", "generate_commit_message"} =>
          lastCall.prompt.diff = staged_diff
    /\ generation_function # "none" => diff = staged_diff
    /\ staged_diff \notin {"unset", ""} /\ ~Ran("git commit") =>
          staged_diff = repo.staged

\* a regenerated commit message on a new branch, the working tree edited since
C7_Witness ==
    /\ pc = "loop_input"
    /\ generation_function = "generate_commit_message"
    /\ Regens(log) = 1
    /\ priorRegens = 1
    /\ new_branch_created
    /\ repo.worktree # staged_diff
    /\ diffsSeen = {staged_diff}

\* the user has interrupted the process
Interrupted == raised.cls = "KeyboardInterrupt"

\* C8: an interrupt at a blocking call (a generation call, a prompt, a git or
\* gh command) ends the process with status 130 and nothing is run after it:
\* the commands run are those that had run when it arrived, so no commit,
\* push, checkout or PR creation is started once it has been received.
C8_Interrupt ==
    Interrupted =>
        /\ pc = "done"
        /\ exitCode = 130
        /\ raised.at \in CommandPcs \cup GenPcs \cup InputPcs
        /\ Len(effects) = raised.ran
        /\ raised.at \in {"git_commit", "confirm"} => ~Ran("git commit")
        /\ raised.at = "git_push" =>
              ~Ran("git push") /\ ~Ran("git push --set-upstream")
        /\ raised.at = "pr_create" => ~Ran("gh pr create")
        /\ raised.at = "checkout_new" => ~Ran("git checkout -b")

\* interrupted while the push was waiting, after the commit
C8_Witness ==
    /\ Interrupted
    /\ raised.at = "git_push"
    /\ exitCode = 130
    /\ Ran("git commit")
    /\ ~Ran("git push") /\ ~Ran("git push --set-upstream")

\* the user typed y, in either case, with or without space around it
SaidYes(line) == IsTrimOf(<<"y">>, line) \/ IsTrimOf(<<"Y">>, line)

\* the commit-message loop ended in Canceled
CommitCanceled ==
    /\ generation_function = "generate_commit_message"
    /\ log # <<>>
    /\ Last(log).decision = "cancel"

\* the user declined the final confirmation
CommitDeclined ==
    confirmLine # NoInput /\ ~SaidYes(confirmLine) /\ ~IsTrimOf(<<>>, confirmLine)

\* C9: when the commit-message loop ends in Canceled, or the user declines
\* the confirmation, nothing is committed or pushed, and the original branch
\* is checked out again only if this run created a new branch and the user
\* answered y to the question about it; the question is asked only then.
C9_CancelKeepsBranch ==
    CommitCanceled \/ CommitDeclined =>
        /\ ~Ran("git commit")
        /\ ~Ran("git push") /\ ~Ran("git push --set-upstream")
        /\ ~Ran("gh pr create")
        /\ pc \notin {"git_commit", "rev_parse_push", "git_push"}
        /\ goBackLine # NoInput \/ pc = "go_back" =>
              new_branch_created /\ Ran("git checkout -b")
        /\ pc = "checkout_original" \/ Ran("git checkout") =>
              /\ new_branch_created
              /\ Ran("git checkout -b")
              /\ SaidYes(goBackLine)
        /\ Ran("git checkout") =>
              Last(effects) = Cmd("git checkout", original_branch_name)
        /\ ~Ran("git checkout") /\ new_branch_created => repo.head = branch_name

\* the commit message canceled on a new branch, the user asked to go back
C9_Witness ==
    /\ CommitCanceled
    /\ new_branch_created
    /\ SaidYes(goBackLine)
    /\ Ran("git checkout")
    /\ repo.head = original_branch_name
    /\ exitCode = 0

\* nothing but the start-up has run
OnlyStartUp ==
    /\ effects = <<>>
    /\ lastCall = NoCall
    /\ genCalls = 0
    /\ rawInput = NoInput /\ confirmLine = NoInput /\ goBackLine = NoInput
    /\ generation_function = "none"

\* C10: with no credential in the environment the process ends with exit
\* code 1 before anything else: no command (the staging included), no
\* generation call and no prompt.  With a credential and nothing staged it
\* ends with exit code 0 and no negotiation is started.
C10_Preconditions ==
    /\ key = None =>
          /\ pc \in {"import", "check_key", "done"}
          /\ pc = "done" => exitCode = 1
          /\ OnlyStartUp
          /\ staged_diff = "unset"
    /\ key # None /\ staged_diff = "" =>
          /\ pc = "done"
          /\ exitCode = 0
          /\ effects = <<Cmd("git add", <<>>)>>
          /\ lastCall = NoCall /\ genCalls = 0 /\ generation_function = "none"
          /\ rawInput = NoInput

\* no credential: main's own check ends the process
C10_Witness ==
    /\ key = None
    /\ pc = "done"
    /\ exitCode = 1
    /\ raised = NoRaise

\* s with its first letter in upper case and every other character as it is
CapitalizeFirst(s) == IF s = <<>> THEN s ELSE <<UpperChar(s[1])>> \o Tail(s)

\* the content as the normalization receives it: trimmed, the backticks removed
Cleaned(content) == RemoveChar(Strip(content), Backtick)

\* the text before the first colon of s and the text after it, both trimmed
Prefix(s) == Strip(SplitFirst(s, ":")[1])

Description(s) == Strip(SplitFirst(s, ":")[2])

\* the title the claim promises for the text s
ClaimedTitle(s) ==
    IF Contains(s, ":")
    THEN Lower(Prefix(s)) \o <<":", " ">> \o CapitalizeFirst(Description(s))
    ELSE s

\* the PR title has just been generated
TitleGenerated == lastCall.fn = "generate_pr_title" /\ lastCall.content # NoInput

\* C11 as stated: the PR title is the generated text split on its first
\* colon, the prefix in lower case, the first letter of the description
\* capitalized, rejoined as "prefix: Description"; a text with no colon is
\* the title as it is.
C11_TitleAsClaimed ==
    TitleGenerated => pr_title = ClaimedTitle(Cleaned(lastCall.content))

\* s starts with the characters of t
HasPrefix(s, t) == Len(s) >= Len(t) /\ SubSeq(s, 1, Len(t)) = t

\* the commit-message generator has just returned a suggestion for --type feat
FeatSuggested ==
    /\ pc = "loop_input"
    /\ generation_function = "generate_commit_message"
    /\ change_type = Feat

\* C12 as stated: with the type hint feat, every suggestion
\* generate_commit_message returns starts with "feat: ", whatever text the
\* generation service answered.
C12_FeatPrefix ==
    FeatSuggested => HasPrefix(suggestion, Feat \o <<":", " ">>)

\* a generator of the loop has just returned a suggestion
Suggested == pc = "loop_input" /\ lastCall.content # NoInput

\* C13 as stated: the normalization applied to a generated text is
\* idempotent: applied to its own result it returns that result, for every
\* text the service can answer with.
C13_Idempotent ==
    Suggested =>
        /\ suggestion = Normalize(lastCall.content)
        /\ Normalize(suggestion) = suggestion

\* the loop last run negotiated the PR title and the user accepted the
\* title presented last
TitleAccepted ==
    /\ generation_function = "generate_pr_title"
    /\ log # <<>>
    /\ Last(log) = [text |-> pr_title, decision |-> "accept"]

\* C14 as stated: the PR title goes through a negotiation loop: it is
\* presented, the user accepts, regenerates or cancels it, and gh pr create
\* is run only with a title the user accepted.
C14_TitleNegotiated ==
    pc = "pr_create" \/ Ran("gh pr create") => TitleAccepted

\* the commit message the claim promises for the text s, which has a colon
ClaimedMessage(s) ==
    IF StartsWith(Description(s), "[")
    THEN s
    ELSE Prefix(s) \o <<":", " ">> \o CapitalizeFirst(Description(s))

\* C15 as stated: for a generated commit message with a colon, only the
\* first letter of the description after the first colon is capitalized,
\* the type prefix and every other character of the description stay as
\* they are; a description starting with '[' is not capitalized and the
\* text is returned unmodified.
C15_OnlyFirstLetter ==
    /\ Suggested
    /\ generation_function = "generate_commit_message"
    /\ Contains(Cleaned(lastCall.content), ":")
    => suggestion = ClaimedMessage(Cleaned(lastCall.content))

\* C16 as stated: the branch name generate_branch_name returns is the
\* generated text, trimmed and without backticks, character for character:
\* no letter changes case and nothing is inserted, a colon in the text or not.
C16_BranchNameTrimmedOnly ==
    Suggested /\ generation_function = "generate_branch_name"
    => suggestion = Cleaned(lastCall.content)

\* the generation call of the loop under way has raised
LoopCallFailed == raised.cls = "OpenAIError" /\ raised.at = "loop_gen"

\* a suggestion has been presented and not answered: the loop waits for the
\* answer, or was interrupted while it waited
Unanswered ==
    \/ pc = "loop_input"
    \/ raised.cls = "KeyboardInterrupt" /\ raised.at = "loop_input"

\* C17: every suggestion presented comes from one generation call made for
\* it: while a suggestion awaits its answer and once the loop has returned,
\* the calls made by the loop, the suggestions presented and the Regenerate
\* decisions plus one are the same number; a call that fails presents
\* nothing; after Accept or Cancel the loop makes no call.
C17_OneCallPerSuggestion ==
    generation_function \in {"generate_branch_name", "generate_commit_message"} =>
        /\ presented = Len(log) + (IF Unanswered THEN 1 ELSE 0)
        /\ genCalls = presented + (IF LoopCallFailed THEN 1 ELSE 0)
        /\ Unanswered \/ ret # NoInput =>
              /\ genCalls = presented
              /\ presented = Regens(log) + 1
        /\ pc = "loop_input" => CalledInLoop /\ suggestion = Normalize(lastCall.content)
        /\ log # <<>> /\ Last(log).decision \in {"accept", "cancel"} =>
              /\ ret # NoInput
              /\ pc # "loop_gen"
              /\ genCalls = Regens(log) + 1

\* a loop canceled at its third suggestion: three calls, two regenerations
C17_Witness ==
    /\ pc = "loop_return"
    /\ Regens(log) = 2
    /\ Last(log).decision = "cancel"
    /\ genCalls = 3
    /\ presented = 3

\* the loop named fn ended with Accept and main has taken its result
AcceptedBy(fn) ==
    /\ generation_function = fn
    /\ log # <<>>
    /\ Last(log).decision = "accept"
    /\ pc # "loop_return"

\* C18 as stated: an Accept is never handled as a cancel: after an accepted
\* commit message main goes to the commit review and asks for the
\* confirmation, after an accepted branch name it goes to the creation of the
\* branch (the name of the current branch apart), whatever the accepted
\* text is, the empty text included.
C18_AcceptIsAccepted ==
    /\ AcceptedBy("generate_commit_message") =>
          \/ pc \in {"rev_parse_commit", "confirm"}
          \/ raised.at \in {"rev_parse_commit", "confirm"}
          \/ confirmLine # NoInput
    /\ AcceptedBy("generate_branch_name") =>
          \/ pc \in {"checkout_new", "rev_parse_check"}
          \/ raised.at \in {"checkout_new", "rev_parse_check"}
          \/ Ran("git checkout -b")
          \/ ret = original_branch_name

\* the positions in effects of the commands named in cmds
Positions(cmds) == {i \in 1..Len(effects) : effects[i].cmd \in cmds}

Pushes == {"git push", "git push --set-upstream"}

\* the user confirmed the commit: y in either case, or nothing, trimmed
Confirmed ==
    confirmLine # NoInput /\ (SaidYes(confirmLine) \/ IsTrimOf(<<>>, confirmLine))

\* C19: git commit runs only with the message the commit-message loop
\* returned on Accept and after the user confirmed with y or nothing; git
\* push runs only after the commit has run and succeeded; gh pr create runs
\* only with --pr and after the push; the push has --set-upstream exactly
\* when this run created a new branch and that branch is the current one.
C19_GatedEffects ==
    /\ pc = "git_commit" \/ Ran("git commit") =>
          /\ generation_function = "generate_commit_message"
          /\ Last(log) = [text |-> commit_message, decision |-> "accept"]
          /\ commit_message \notin {None, <<>>}
          /\ Confirmed
    /\ \A i \in Positions({"git commit"}) : effects[i].arg = commit_message
    /\ pc \in {"rev_parse_push", "git_push"} => Ran("git commit")
    /\ \A j \in Positions(Pushes) :
          /\ \E i \in Positions({"git commit"}) : i < j
          /\ effects[j].arg = repo.head
          /\ effects[j].cmd = "git push --set-upstream" <=>
                 new_branch_created /\ repo.head = branch_name
    /\ pc \in {"pr_gh_version", "pr_create"} =>
          args.pr /\ Positions(Pushes) # {}
    /\ \A k \in Positions({"gh pr create"}) :
          /\ args.pr
          /\ \E j \in Positions(Pushes) : j < k
    /\ Cardinality(Positions({"git commit"})) <= 1
    /\ Cardinality(Positions(Pushes)) <= 1

\* a whole run with --branch and --pr: commit, push --set-upstream, PR
C19_Witness ==
    /\ pc = "done"
    /\ exitCode = 0
    /\ new_branch_created
    /\ Ran("git commit")
    /\ Ran("git push --set-upstream")
    /\ Ran("gh pr create")

\* the command at position p was the last to fail, with the exception c
FailedAt(p, c) == raised.cls = c /\ raised.at = p

\* C20 as stated: in the --pr step a failing auxiliary command does not end
\* the run with exit code 1: when git show-ref of origin/main fails the
\* program goes on to origin/master, and when gh is not installed it prints
\* the hint and ends normally.
C20_PrFailuresRecovered ==
    /\ FailedAt("pr_show_ref_main", "CalledProcessError") =>
          /\ exitCode # 1
          /\ pc = "done" \/ pc = "pr_show_ref_master" \/ default_branch = "master"
    /\ FailedAt("pr_gh_version", "FileNotFoundError") =>
          /\ exitCode # 1
          /\ pc \in {"main_end", "done"}
          /\ ~Ran("gh pr create")

====
